---- MODULE Spec2Model ----
(***************************************************************************)
(* Two notebooks of the deep-learning workshop, as state machines:         *)
(*   - notebooks/8-MetaLearning/2-Reptile-Sines-PyTorch.ipynb  (Spec)      *)
(*   - notebooks/2-CNN/6-StyleTransfer/4-Art-Style-Transfer-inception_tf   *)
(*     .ipynb                     (SpecStyle; SpecLoss: its loss functions; *)
(*                                 SpecPrep: its prep_image)               *)
(* Tensors hold floating-point numbers.  They are modelled by a binary     *)
(* floating-point format with MantBits significant bits, round to nearest, *)
(* ties to even, and smallest quantum 1 (float32 scaled down: 24 bits      *)
(* become MantBits).  Every tensor operation rounds its result.            *)
(***************************************************************************)
EXTENDS Integers, Sequences, FiniteSets, TLC

(***************************************************************************)
(* Bounds of the model.                                                    *)
(***************************************************************************)
MaxOuterSteps == 2      \* outer_steps is drawn from 0..MaxOuterSteps
MaxInnerEpochs == 1     \* inner_epochs is drawn from 0..MaxInnerEpochs
LenX == 2               \* len(x_all), 50 in the notebook
BatchSize == 1          \* inner_batchsize, 10 in the notebook
PlotEvery == 2          \* the period of the evaluation block, 1000 in the notebook
EvalSteps == 1          \* the SGD steps of the evaluation block, 32 in the notebook
MaxW == 8               \* SGD steps keep every parameter within -MaxW..MaxW

(***************************************************************************)
(* Floating point.                                                         *)
(***************************************************************************)
MantBits == 2

RECURSIVE Pow2(_)
Pow2(n) == IF n = 0 THEN 1 ELSE 2 * Pow2(n - 1)

Abs(x) == IF x < 0 THEN -x ELSE x

\* a / m rounded to the nearest integer, ties to the even one (a >= 0, m > 0)
RoundHalfEven(a, m) ==
    LET q == a \div m
        r == a % m
    IN  IF 2 * r < m THEN q
        ELSE IF 2 * r > m THEN q + 1
        ELSE IF q % 2 = 0 THEN q ELSE q + 1

\* the spacing of the representable numbers around a / d (a >= 0, d > 0)
RECURSIVE UlpFrom(_, _, _)
UlpFrom(a, d, u) ==
    IF a < d * Pow2(MantBits) * u THEN u ELSE UlpFrom(a, d, 2 * u)

\* the rational n / d (d > 0) rounded to the floating-point format
Fl(n, d) ==
    LET a == Abs(n)
        u == UlpFrom(a, d, 1)
        r == u * RoundHalfEven(a, d * u)
    IN  IF n < 0 THEN -r ELSE r

Representable(x) == Fl(x, 1) = x

FAdd(x, y) == Fl(x + y, 1)
FSub(x, y) == Fl(x - y, 1)
FMul(x, y) == Fl(x * y, 1)
\* a tensor element times a Python float, given as the rational s.num / s.den
FMulScalar(x, s) == Fl(x * s.num, s.den)

(***************************************************************************)
(* The Reptile notebook                                                    *)
(***************************************************************************)
VARIABLES
    plot, inner_epochs, outer_stepsize0, outer_steps,   \* the hyperparameter cell
    heap,               \* tensor storage: address -> number
    weights_before,     \* parameter name -> address (empty: unbound)
    weights_after,      \* parameter name -> address (empty: unbound)
    outer_stepsize,     \* a rational [num, den]; den = 0: unbound
    outer_step,         \* the loop variable; -1: unbound
    f, f_plot,          \* tasks [phase, ampl]
    inds,               \* the shuffled data indices
    epoch, start,       \* the positions of the two inner range iterators
    inner_step,         \* the position of the evaluation block's range iterator
    pc,
    \* history variables, read by the properties only
    w_init,             \* the parameters after construction
    w_start,            \* the parameters at the start of the outer iteration, kept
                        \* until its meta-update is over (the current ones otherwise)
    w_trained,          \* the parameters after the inner SGD of the outer iteration,
                        \* kept until its meta-update is over (the current ones otherwise)
    sched               \* the outer step sizes used so far, one per outer iteration

rvars == << plot, inner_epochs, outer_stepsize0, outer_steps, heap, weights_before,
            weights_after, outer_stepsize, outer_step, f, f_plot, inds, epoch, start,
            inner_step, pc, w_init, w_start, w_trained, sched >>

\* history variables of the Reptile notebook, read by the properties only
VARIABLES
    w_meta,             \* the parameters the latest meta-update produced
    rng_draws,          \* the numbers drawn from rng since the loop began
    gen_calls,          \* the calls of gen_task since the loop began
    calls,              \* the calls of train_current_model_on_batch of the outer
                        \* iteration: [task, x], x the data indices or "xtrain_plot"
    evals               \* the values of outer_step whose evaluation block was entered

rhist == << w_meta, rng_draws, gen_calls, calls, evals >>

RHistIdle ==
    /\ w_meta = << >>
    /\ rng_draws = 0
    /\ gen_calls = 0
    /\ calls = << >>
    /\ evals = {}

(***************************************************************************)
(* The style-transfer notebook: the functions of the loss cell, called on   *)
(* given arguments                                                         *)
(***************************************************************************)
VARIABLES
    loss_S,             \* the argument S: layer name -> captured activations
    loss_X,             \* the argument X: layer name -> candidate activations
    loss_layer,         \* the argument layer
    loss_out,           \* the value returned, a rational [num, den]; den = 0: none yet
    loss_pc

lvars == << loss_S, loss_X, loss_layer, loss_out, loss_pc >>

\* the variables of the notebooks a specification does not run
LIdle ==
    /\ loss_S = << >>
    /\ loss_X = << >>
    /\ loss_layer = ""
    /\ loss_out = [num |-> 0, den |-> 0]
    /\ loss_pc = "idle"

(***************************************************************************)
(* The style-transfer notebook: its cells                                  *)
(***************************************************************************)
VARIABLES
    photo_i, style_i,   \* the counters of the two selection cells
    photo, style,       \* the selected images (<< >>: unbound)
    photo_features,     \* layer name -> activations captured from the photo
    style_features,     \* layer name -> activations captured from the style image
    graph_consts,       \* the tf.constant nodes of the loss graph: [P, S]
    x0,                 \* the pixel vector the solver starts from and returns
    iteration,
    x_eval,             \* the argument x of the latest call of eval_loss_and_grad
    nfun,               \* the calls of eval_loss_and_grad in the running solver
    losses_,            \* the loss components of the latest evaluation
    cell                \* the position in the notebook

svars == << photo_i, style_i, photo, style, photo_features, style_features,
            graph_consts, x0, iteration, x_eval, nfun, losses_, cell >>

SIdle ==
    /\ photo_i = -1
    /\ style_i = -1
    /\ photo = << >>
    /\ style = << >>
    /\ photo_features = << >>
    /\ style_features = << >>
    /\ graph_consts = << >>
    /\ x0 = << >>
    /\ iteration = 0
    /\ x_eval = << >>
    /\ nfun = 0
    /\ losses_ = << >>
    /\ cell = "idle"

\* history variables of the cells, read by the properties only
VARIABLES
    photo_hist,         \* the images the executions of the photo cell selected
    style_hist,         \* the images the executions of the style cell selected
    run_starts,         \* per run of the optimization cell: the first point evaluated
    run_results         \* per completed run of the optimization cell: the x0 returned

shist == << photo_hist, style_hist, run_starts, run_results >>

SHistIdle ==
    /\ photo_hist = << >>
    /\ style_hist = << >>
    /\ run_starts = << >>
    /\ run_results = << >>

(***************************************************************************)
(* The style-transfer notebook: prep_image, called on an image of a given  *)
(* shape                                                                   *)
(***************************************************************************)
VARIABLES
    im_shape,           \* the argument's shape: << h, w >> or << h, w, channels >>
    prep_out,           \* the shape of the returned image (<< >>: none yet)
    prep_pc

pvars == << im_shape, prep_out, prep_pc >>

PIdle ==
    /\ im_shape = << >>
    /\ prep_out = << >>
    /\ prep_pc = "idle"

\* the named parameters of model.state_dict()
Params == {"weight", "bias"}

ModelAddr(name) == << "model", name >>
SnapAddr(name) == << "snap", name >>
ModelAddrs == {ModelAddr(n) : n \in Params}
SnapAddrs == {SnapAddr(n) : n \in Params}

\* model.state_dict(): the tensors of the live parameters, not copies
state_dict == [n \in Params |-> ModelAddr(n)]

\* the numbers a state dict refers to
Values(h, sd) == [n \in DOMAIN sd |-> h[sd[n]]]

\* deepcopy(model.state_dict()) when it aliases the parameters instead of copying them
shallowcopy(h) == [heap |-> h, refs |-> state_dict]

\* deepcopy(model.state_dict()): new tensors holding the parameters' current values
deepcopy(h) ==
    [heap |-> [a \in (DOMAIN h) \cup SnapAddrs |->
                  IF a \in SnapAddrs THEN h[ModelAddr(a[2])] ELSE h[a]],
     refs |-> [n \in Params |-> SnapAddr(n)]]

\* a load_state_dict that leaves the live parameters as they are
load_state_dict_skipped(h, sd) == h

\* model.load_state_dict(sd): copies the given numbers into the live parameters
load_state_dict(h, sd) ==
    [a \in DOMAIN h |-> IF a \in ModelAddrs THEN sd[a[2]] ELSE h[a]]

InnerStepsize == [num |-> 1, den |-> 50]

\* the gradients autograd may return for one parameter
Grads == {Fl(-150, 1), Fl(50, 1)}

\* param.data -= inner_stepsize * param.grad.data, for every parameter
SGDStep(h, grad) ==
    [a \in DOMAIN h |->
        IF a \in ModelAddrs
        THEN FSub(h[a], FMulScalar(grad[a[2]], InnerStepsize))
        ELSE h[a]]

InRange(h) == \A a \in ModelAddrs : Abs(h[a]) <= MaxW

OuterStepsize0s == {[num |-> 0, den |-> 1], [num |-> 1, den |-> 2], [num |-> 1, den |-> 1]}
NoStep == [num |-> 0, den |-> 0]

RatLeq(a, b) == a.num * b.den <= b.num * a.den
RatEq(a, b) == a.num * b.den = b.num * a.den

\* the schedule with the decay counted from outer_step + 1
StepSizeShifted(s0, i, n) == [num |-> s0.num * (n - i - 1), den |-> s0.den * n]

\* the schedule with floor division (outer_step // outer_steps is 0 in the loop)
StepSizeFloorDiv(s0, i, n) == [num |-> s0.num * (1 - (i \div n)), den |-> s0.den]

\* outer_stepsize0 * (1 - outer_step / outer_steps), with true division; the step
\* size is a Python float, whose rounding the model leaves out
StepSize(s0, i, n) == [num |-> s0.num * (n - i), den |-> s0.den * n]

\* the interpolation without its base term
InterpolateNoBase(wb, wa, s) == FMulScalar(FSub(wa, wb), s)

\* the interpolation with weights_before and weights_after exchanged
InterpolateReversed(wb, wa, s) == FAdd(wa, FMulScalar(FSub(wb, wa), s))

\* weights_before[name] + (weights_after[name] - weights_before[name]) * outer_stepsize
Interpolate(wb, wa, s) == FAdd(wb, FMulScalar(FSub(wa, wb), s))

Tasks == {[phase |-> 0, ampl |-> 3], [phase |-> 1, ampl |-> 2]}
NoTask == [phase |-> -1, ampl |-> -1]

Perms(n) == {p \in [1..n -> 1..n] : \A i, j \in 1..n : p[i] = p[j] => i = j}

\* the parameter values a freshly constructed model may hold
InitWeights == {[weight |-> -1, bias |-> 0], [weight |-> 0, bias |-> -1]}

RInit ==
    /\ plot \in BOOLEAN
    /\ inner_epochs \in 0..MaxInnerEpochs
    /\ outer_stepsize0 \in OuterStepsize0s
    /\ outer_steps \in 0..MaxOuterSteps
    /\ \E w0 \in InitWeights : heap = [a \in ModelAddrs |-> w0[a[2]]]
    /\ weights_before = << >>
    /\ weights_after = << >>
    /\ outer_stepsize = NoStep
    /\ outer_step = -1
    /\ f = NoTask
    /\ f_plot \in Tasks
    /\ inds = << >>
    /\ epoch = 0
    /\ start = 0
    /\ inner_step = 0
    /\ pc = "loop"
    /\ w_init = Values(heap, state_dict)
    /\ w_start = Values(heap, state_dict)
    /\ w_trained = Values(heap, state_dict)
    /\ sched = << >>
    /\ w_meta = Values(heap, state_dict)
    /\ rng_draws = 0
    /\ gen_calls = 0
    /\ calls = << >>
    /\ evals = {}

\* gen_task draws phase and ampl: two numbers from rng
GenTaskDraws == 2

\* the slice inds[start:inner_batchsize], its stop not moved along with its start
SliceFixedStop(q, a, b) == SubSeq(q, a + 1, IF b - a < Len(q) THEN b - a ELSE Len(q))

\* q[a:b] for 0 <= a <= b: the elements of q at the (0-based) positions a .. b-1
\* that exist
Slice(q, a, b) == SubSeq(q, a + 1, IF b < Len(q) THEN b ELSE Len(q))

\* a loop that also runs its body for outer_step = outer_steps
MoreIterationsInclusive(i, n) == i + 1 <= n

\* for outer_step in range(outer_steps): one more iteration
MoreIterations(i, n) == i + 1 < n

\* an epoch loop that runs once more than inner_epochs
InnerLoopDoneLate(e, n) == e >= n + 1

\* for _ in range(inner_epochs): exhausted
InnerLoopDone(e, n) == e >= n

\* for outer_step in range(outer_steps): weights_before = deepcopy(model.state_dict())
Snapshot ==
    /\ pc = "loop"
    /\ MoreIterations(outer_step, outer_steps)
    /\ outer_step' = outer_step + 1
    /\ LET c == deepcopy(heap)
       IN  /\ heap' = c.heap
           /\ weights_before' = c.refs
    /\ w_start' = Values(heap, state_dict)
    /\ w_trained' = Values(heap, state_dict)
    /\ pc' = "task"
    /\ UNCHANGED << plot, inner_epochs, outer_stepsize0, outer_steps, weights_after,
                    outer_stepsize, f, f_plot, inds, epoch, start, inner_step,
                    w_init, sched >>
    /\ calls' = << >>
    /\ UNCHANGED << w_meta, rng_draws, gen_calls, evals >>
    /\ UNCHANGED << lvars, svars, shist, pvars >>

\* f = gen_task(); y_all = f(x_all); inds = rng.permutation(len(x_all))
SampleTask ==
    /\ pc = "task"
    /\ f' \in Tasks
    /\ inds' \in Perms(LenX)
    /\ epoch' = 0
    /\ start' = 0
    /\ pc' = "sgd"
    /\ UNCHANGED << plot, inner_epochs, outer_stepsize0, outer_steps, heap,
                    weights_before, weights_after, outer_stepsize, outer_step, f_plot,
                    inner_step, w_init, w_start, w_trained, sched >>
    /\ rng_draws' = rng_draws + GenTaskDraws + 1
    /\ gen_calls' = gen_calls + 1
    /\ UNCHANGED << w_meta, calls, evals >>
    /\ UNCHANGED << lvars, svars, shist, pvars >>

\* one call of train_current_model_on_batch in the two inner loops
InnerBatch ==
    /\ pc = "sgd"
    /\ ~InnerLoopDone(epoch, inner_epochs)
    /\ \E grad \in [Params -> Grads] :
          /\ InRange(SGDStep(heap, grad))
          /\ heap' = SGDStep(heap, grad)
    /\ IF start + BatchSize < LenX
       THEN start' = start + BatchSize /\ epoch' = epoch
       ELSE start' = 0 /\ epoch' = epoch + 1
    /\ UNCHANGED << plot, inner_epochs, outer_stepsize0, outer_steps, weights_before,
                    weights_after, outer_stepsize, outer_step, f, f_plot, inds,
                    inner_step, pc, w_init, w_start, w_trained, sched >>
    /\ calls' = Append(calls, [task |-> f, x |-> Slice(inds, start, start + BatchSize)])
    /\ UNCHANGED << w_meta, rng_draws, gen_calls, evals >>
    /\ UNCHANGED << lvars, svars, shist, pvars >>

\* weights_after = model.state_dict(); the step size; model.load_state_dict({...})
MetaUpdate ==
    /\ pc = "sgd"
    /\ InnerLoopDone(epoch, inner_epochs)
    /\ outer_steps # 0       \* outer_step/outer_steps raises ZeroDivisionError
    /\ weights_after' = state_dict
    /\ outer_stepsize' = StepSize(outer_stepsize0, outer_step, outer_steps)
    /\ heap' = load_state_dict(heap,
                  [name \in DOMAIN weights_before |->
                      Interpolate(heap[weights_before[name]],
                                  heap[weights_after'[name]],
                                  outer_stepsize')])
    /\ w_trained' = Values(heap, state_dict)
    /\ sched' = Append(sched, outer_stepsize')
    /\ pc' = "plotcheck"
    /\ UNCHANGED << plot, inner_epochs, outer_stepsize0, outer_steps, weights_before,
                    outer_step, f, f_plot, inds, epoch, start, inner_step, w_init,
                    w_start >>
    /\ w_meta' = Values(heap', state_dict)
    /\ UNCHANGED << rng_draws, gen_calls, calls, evals >>
    /\ UNCHANGED << lvars, svars, shist, pvars >>

\* if plot and outer_step==0 or (outer_step+1) % 1000 == 0
PlotCondition(p, i) == (p /\ i = 0) \/ ((i + 1) % PlotEvery = 0)

\* the evaluation block is entered: f = f_plot; weights_before = deepcopy(...)
PlotBegin ==
    /\ pc = "plotcheck"
    /\ PlotCondition(plot, outer_step)
    /\ f' = f_plot
    /\ LET c == deepcopy(heap)
       IN  /\ heap' = c.heap
           /\ weights_before' = c.refs
    /\ inner_step' = 0
    /\ w_start' = Values(heap, state_dict)
    /\ w_trained' = Values(heap, state_dict)
    /\ pc' = "eval"
    /\ UNCHANGED << plot, inner_epochs, outer_stepsize0, outer_steps, weights_after,
                    outer_stepsize, outer_step, f_plot, inds, epoch, start, w_init,
                    sched >>
    /\ evals' = evals \cup {outer_step}
    /\ UNCHANGED << w_meta, rng_draws, gen_calls, calls >>
    /\ UNCHANGED << lvars, svars, shist, pvars >>

\* the evaluation block is skipped
PlotSkip ==
    /\ pc = "plotcheck"
    /\ ~PlotCondition(plot, outer_step)
    /\ w_start' = Values(heap, state_dict)
    /\ w_trained' = Values(heap, state_dict)
    /\ pc' = "loop"
    /\ UNCHANGED << plot, inner_epochs, outer_stepsize0, outer_steps, heap,
                    weights_before, weights_after, outer_stepsize, outer_step, f,
                    f_plot, inds, epoch, start, inner_step, w_init, sched >>
    /\ UNCHANGED rhist
    /\ UNCHANGED << lvars, svars, shist, pvars >>

\* for inner_step in range(1, 32+1): train_current_model_on_batch(xtrain_plot, ...)
PlotInnerStep ==
    /\ pc = "eval"
    /\ inner_step < EvalSteps
    /\ \E grad \in [Params -> Grads] :
          /\ InRange(SGDStep(heap, grad))
          /\ heap' = SGDStep(heap, grad)
    /\ inner_step' = inner_step + 1
    /\ UNCHANGED << plot, inner_epochs, outer_stepsize0, outer_steps, weights_before,
                    weights_after, outer_stepsize, outer_step, f, f_plot, inds, epoch,
                    start, pc, w_init, w_start, w_trained, sched >>
    /\ calls' = Append(calls, [task |-> f, x |-> "xtrain_plot"])
    /\ UNCHANGED << w_meta, rng_draws, gen_calls, evals >>
    /\ UNCHANGED << lvars, svars, shist, pvars >>

\* model.load_state_dict(weights_before) # restore from snapshot
PlotRestore ==
    /\ pc = "eval"
    /\ inner_step >= EvalSteps
    /\ heap' = load_state_dict(heap, Values(heap, weights_before))
    /\ pc' = "loop"
    /\ UNCHANGED << plot, inner_epochs, outer_stepsize0, outer_steps, weights_before,
                    weights_after, outer_stepsize, outer_step, f, f_plot, inds, epoch,
                    start, inner_step, w_init, w_start, w_trained, sched >>
    /\ UNCHANGED rhist
    /\ UNCHANGED << lvars, svars, shist, pvars >>

\* print("FINISHED")
Finish ==
    /\ pc = "loop"
    /\ ~MoreIterations(outer_step, outer_steps)
    /\ pc' = "done"
    /\ UNCHANGED << plot, inner_epochs, outer_stepsize0, outer_steps, heap,
                    weights_before, weights_after, outer_stepsize, outer_step, f,
                    f_plot, inds, epoch, start, inner_step, w_init, w_start,
                    w_trained, sched >>
    /\ UNCHANGED rhist
    /\ UNCHANGED << lvars, svars, shist, pvars >>

vars == << rvars, lvars, svars, rhist, shist, pvars >>

Init == RInit /\ LIdle /\ SIdle /\ SHistIdle /\ PIdle

Next ==
    \/ Snapshot
    \/ SampleTask
    \/ InnerBatch
    \/ MetaUpdate
    \/ PlotBegin
    \/ PlotSkip
    \/ PlotInnerStep
    \/ PlotRestore
    \/ Finish

Spec == Init /\ [][Next]_vars

(***************************************************************************)
(* Properties of the Reptile notebook                                      *)
(***************************************************************************)
W == Values(heap, state_dict)

\* C1: at the end of the meta-update of every outer iteration, before the evaluation
\* block, every named parameter equals W_before + (W_after - W_before) * s_i, computed
\* in the tensors' arithmetic, with s_i the step size of the schedule for this iteration.
C1_MetaUpdate ==
    pc = "plotcheck" =>
        /\ RatEq(outer_stepsize,
                 [num |-> outer_stepsize0.num * (outer_steps - outer_step),
                  den |-> outer_stepsize0.den * outer_steps])
        /\ \A name \in Params :
              W[name] = FAdd(w_start[name],
                             FMulScalar(FSub(w_trained[name], w_start[name]),
                                        outer_stepsize))

\* an iteration whose inner SGD moved a parameter and whose meta-update put it
\* strictly between W_before and W_after
C1_Witness ==
    /\ pc = "plotcheck"
    /\ \E name \in Params :
          /\ w_start[name] < W[name]
          /\ W[name] < w_trained[name]

\* C2 as stated: once the loop has run its outer_steps iterations, the outer step size
\* has reached exactly 0.
C2_Original ==
    (pc = "done" /\ outer_steps > 0) => outer_stepsize.num = 0

\* C2 amended: the loop runs outer_step = 0 .. outer_steps-1 only, so the step size it
\* uses is never 0 when outer_stepsize0 > 0; the last one it uses is
\* outer_stepsize0 / outer_steps; the schedule is 0 only at outer_step = outer_steps,
\* which the loop never reaches.
C2_Amended ==
    /\ outer_step < outer_steps \/ outer_steps = 0
    /\ Len(sched) <= outer_steps
    /\ \A k \in DOMAIN sched :
          /\ sched[k].den > 0
          /\ outer_stepsize0.num > 0 => sched[k].num > 0
    /\ (pc = "done" /\ outer_steps > 0) =>
          /\ Len(sched) = outer_steps
          /\ outer_stepsize = sched[Len(sched)]
          /\ RatEq(outer_stepsize,
                   [num |-> outer_stepsize0.num, den |-> outer_stepsize0.den * outer_steps])

\* the loop has finished after at least two iterations with a positive step size
C2_Witness ==
    /\ pc = "done"
    /\ outer_steps >= 2
    /\ outer_stepsize.num > 0

\* C3: the step size of outer iteration i is outer_stepsize0 * (1 - i/outer_steps), and
\* the step size of a later iteration is never greater than that of an earlier one.
C3_Schedule ==
    \A k \in DOMAIN sched :
        /\ RatEq(sched[k],
                 [num |-> outer_stepsize0.num * (outer_steps - (k - 1)),
                  den |-> outer_stepsize0.den * outer_steps])
        /\ \A j \in 1..(k - 1) : RatLeq(sched[k], sched[j])

\* two iterations have run and the second step size is smaller than the first
C3_Witness ==
    /\ Len(sched) >= 2
    /\ ~RatLeq(sched[1], sched[2])

\* C4 as stated: with s = 0 the meta-update leaves W equal to W_before, and with s = 1
\* it makes W equal to W_after, for every W_before and W_after.
C4_Original ==
    pc = "plotcheck" =>
        \A name \in Params :
            /\ outer_stepsize.num = 0 => W[name] = w_start[name]
            /\ outer_stepsize.num = outer_stepsize.den => W[name] = w_trained[name]

\* C4 amended: with s = 0 the meta-update leaves W equal to W_before; with s = 1 it
\* makes W equal to W_before + fl(W_after - W_before), which is W_after whenever the
\* difference W_after - W_before is a number of the tensors' floating-point format.
C4_Amended ==
    pc = "plotcheck" =>
        \A name \in Params :
            /\ outer_stepsize.num = 0 => W[name] = w_start[name]
            /\ outer_stepsize.num = outer_stepsize.den =>
                  /\ W[name] = FAdd(w_start[name], FSub(w_trained[name], w_start[name]))
                  /\ Representable(w_trained[name] - w_start[name]) =>
                        W[name] = w_trained[name]

\* a meta-update with s = 1 after an inner SGD that moved a parameter by a
\* representable difference
C4_Witness ==
    /\ pc = "plotcheck"
    /\ outer_stepsize.num = outer_stepsize.den
    /\ \E name \in Params :
          /\ w_trained[name] # w_start[name]
          /\ Representable(w_trained[name] - w_start[name])
          /\ W[name] = w_trained[name]

\* C5: with inner_epochs = 0, W_after equals W_before in every outer iteration, and
\* outside the evaluation block the parameters equal their initial values, whatever the
\* step size and the sampled task.
C5_ZeroInnerEpochs ==
    inner_epochs = 0 =>
        /\ pc # "eval" => W = w_init
        /\ pc = "plotcheck" => w_trained = w_start

\* a finished run of two outer iterations (one with the evaluation block) with
\* inner_epochs = 0 and a positive step size
C5_Witness ==
    /\ inner_epochs = 0
    /\ pc = "done"
    /\ outer_steps >= 2
    /\ outer_stepsize.num > 0
    /\ f = f_plot
    /\ Values(heap, weights_before) = w_init

\* C6: from the snapshot until the meta-update has used it, weights_before holds the
\* parameter values of the start of the outer iteration, while the inner SGD steps
\* change the live parameters in place.
C6_SnapshotIsDeepCopy ==
    pc \in {"task", "sgd", "plotcheck"} => Values(heap, weights_before) = w_start

\* the inner SGD has changed a live parameter and the snapshot still differs from it
C6_Witness ==
    /\ pc = "sgd"
    /\ \E name \in Params : W[name] # heap[weights_before[name]]

\* C10: with outer_steps = 0 the parameters equal their initial values, whatever the
\* outer step size.
C10_ZeroOuterSteps ==
    outer_steps = 0 => W = w_init

\* the loop has finished without an iteration, the step size setting being positive
C10_Witness ==
    /\ outer_steps = 0
    /\ pc = "done"
    /\ outer_stepsize0.num > 0
    /\ inner_epochs > 0

(***************************************************************************)
(* The loss functions of the style-transfer notebook                       *)
(***************************************************************************)
\* the Reptile notebook is not run
RIdle ==
    /\ plot = FALSE
    /\ inner_epochs = 0
    /\ outer_stepsize0 = [num |-> 0, den |-> 1]
    /\ outer_steps = 0
    /\ heap = << >>
    /\ weights_before = << >>
    /\ weights_after = << >>
    /\ outer_stepsize = NoStep
    /\ outer_step = -1
    /\ f = NoTask
    /\ f_plot = NoTask
    /\ inds = << >>
    /\ epoch = 0
    /\ start = 0
    /\ inner_step = 0
    /\ pc = "idle"
    /\ w_init = << >>
    /\ w_start = << >>
    /\ w_trained = << >>
    /\ sched = << >>

photo_layers == << "Mixed_4b" >>
style_layers == << "Conv2d_1a_7x7", "Conv2d_2c_3x3", "Mixed_3b", "Mixed_4d" >>
all_layers == photo_layers \o style_layers

Range(q) == {q[i] : i \in DOMAIN q}

\* the shape [1, ActH, ActW, ActC] of a layer's activations (one image per batch)
ActH == 1
ActW == 3
ActC == 2
ActVals == {0, 1, 2}
Tensors == [1..ActH -> [1..ActW -> [1..ActC -> ActVals]]]

\* tf.reshape(tensor, shape=[-1, num_channels]): one row per spatial position
reshape(tensor) ==
    [r \in 1..(ActH * ActW) |-> tensor[((r - 1) \div ActW) + 1][((r - 1) % ActW) + 1]]

\* the entry [i][j] of matmul(transpose(matrix), matrix): the products of the rows
\* 1..n are accumulated in row order, every product and every sum rounded
RECURSIVE Dot(_, _, _, _)
Dot(matrix, i, j, n) ==
    IF n = 0 THEN 0
    ELSE FAdd(Dot(matrix, i, j, n - 1), FMul(matrix[n][i], matrix[n][j]))

\* the entry [i][j] of matmul(matrix, transpose(matrix))
RECURSIVE DotRows(_, _, _, _)
DotRows(matrix, i, j, n) ==
    IF n = 0 THEN 0
    ELSE FAdd(DotRows(matrix, i, j, n - 1), FMul(matrix[i][n], matrix[j][n]))

\* gram_matrix with the transpose on the second operand: position by position
gram_matrix_positions(tensor) ==
    LET matrix == reshape(tensor)
    IN  [i \in 1..(ActH * ActW) |-> [j \in 1..(ActH * ActW) |-> DotRows(matrix, i, j, ActC)]]

\* gram_matrix(tensor): channel by channel
gram_matrix(tensor) ==
    LET matrix == reshape(tensor)
    IN  [i \in 1..ActC |-> [j \in 1..ActC |-> Dot(matrix, i, j, ActH * ActW)]]

\* tf.reduce_sum of the squares of a - b over the entries, in row-major order
RECURSIVE SumSquares(_, _, _, _)
SumSquares(a, b, cols, k) ==
    IF k = 0 THEN 0
    ELSE LET i == ((k - 1) \div cols) + 1
             j == ((k - 1) % cols) + 1
             d == FSub(a[i][j], b[i][j])
         IN  FAdd(SumSquares(a, b, cols, k - 1), FMul(d, d))

\* style_loss with the Gram matrices added instead of subtracted
RECURSIVE SumSquaresOfSum(_, _, _, _)
SumSquaresOfSum(a, b, cols, k) ==
    IF k = 0 THEN 0
    ELSE LET i == ((k - 1) \div cols) + 1
             j == ((k - 1) % cols) + 1
             d == FAdd(a[i][j], b[i][j])
         IN  FAdd(SumSquaresOfSum(a, b, cols, k - 1), FMul(d, d))

style_loss_sum(S, X, layer) ==
    LET S_gram == gram_matrix(S[layer])
        X_gram == gram_matrix(X[layer])
        N == ActH
        M == ActW * ActC
    IN  [num |-> SumSquaresOfSum(X_gram, S_gram, ActC, ActC * ActC),
         den |-> (ActC * ActC) * 4 * (N * N) * (M * M)]

\* style_loss(S, X, layer): reduce_mean(square(X_gram - S_gram)) / (4 N^2 M^2), the
\* two divisions kept as one fraction
style_loss(S, X, layer) ==
    LET S_gram == gram_matrix(S[layer])
        X_gram == gram_matrix(X[layer])
        N == ActH
        M == ActW * ActC
    IN  [num |-> SumSquares(X_gram, S_gram, ActC, ActC * ActC),
         den |-> (ActC * ActC) * 4 * (N * N) * (M * M)]

\* the reference activations the function is called with
RefTensors ==
    { t \in Tensors : \A h \in 1..ActH : \A w \in 1..ActW :
                         t[h][w] \in {<< 1, 0 >>, << 2, 1 >>} }

LInit ==
    /\ loss_layer \in Range(style_layers)
    /\ \E s \in RefTensors : loss_S = [l \in {loss_layer} |-> s]
    /\ \E x \in Tensors : loss_X = [l \in {loss_layer} |-> x]
    /\ loss_out = [num |-> 0, den |-> 0]
    /\ loss_pc = "call"

\* style_loss(S, X, layer) is called and returns
CallStyleLoss ==
    /\ loss_pc = "call"
    /\ loss_out' = style_loss(loss_S, loss_X, loss_layer)
    /\ loss_pc' = "return"
    /\ UNCHANGED << loss_S, loss_X, loss_layer >>
    /\ UNCHANGED << rvars, svars, rhist, shist, pvars >>

InitLoss == LInit /\ RIdle /\ SIdle /\ RHistIdle /\ SHistIdle /\ PIdle

NextLoss == CallStyleLoss

SpecLoss == InitLoss /\ [][NextLoss]_vars

(***************************************************************************)
(* Properties of the loss functions                                        *)
(***************************************************************************)
\* the tensor with its spatial positions permuted by p, all channels alike
PermuteSpatial(tensor, p) ==
    [h \in 1..ActH |-> [w \in 1..ActW |->
        LET k == p[(h - 1) * ActW + w]
        IN  tensor[((k - 1) \div ActW) + 1][((k - 1) % ActW) + 1]]]

\* no product and no partial sum of a Gram entry of the tensor is rounded, in
\* whatever order the positions are accumulated
RECURSIVE AbsDot(_, _, _, _)
AbsDot(matrix, i, j, n) ==
    IF n = 0 THEN 0 ELSE AbsDot(matrix, i, j, n - 1) + Abs(matrix[n][i] * matrix[n][j])

NoRounding(tensor) ==
    \A i, j \in 1..ActC : AbsDot(reshape(tensor), i, j, ActH * ActW) <= Pow2(MantBits)

\* C7: when the candidate's activations of the layer equal the captured activations of
\* the style image, style_loss returns 0.
C7_EqualActivationsZeroLoss ==
    (loss_pc = "return" /\ loss_X[loss_layer] = loss_S[loss_layer]) =>
        /\ loss_out.num = 0
        /\ loss_out.den > 0

\* style_loss has returned for equal activations whose Gram matrix is not zero
C7_Witness ==
    /\ loss_pc = "return"
    /\ loss_X[loss_layer] = loss_S[loss_layer]
    /\ gram_matrix(loss_X[loss_layer])[1][1] > 0
    /\ loss_out.num = 0

\* C8 as stated: for every activation map and every permutation of its spatial
\* positions the Gram matrix of the permuted map equals that of the map, and the style
\* loss against the reference is unchanged.
C8_Original ==
    loss_pc = "return" =>
        \A p \in Perms(ActH * ActW) :
            LET xp == PermuteSpatial(loss_X[loss_layer], p)
            IN  /\ gram_matrix(xp) = gram_matrix(loss_X[loss_layer])
                /\ style_loss(loss_S, [l \in {loss_layer} |-> xp], loss_layer) = loss_out

\* C8 amended: the Gram matrix and the style loss are unchanged by a permutation of the
\* spatial positions whenever no product and no partial sum of the Gram entries is
\* rounded; otherwise the reordered sums may round differently.
C8_Amended ==
    (loss_pc = "return" /\ NoRounding(loss_X[loss_layer])) =>
        \A p \in Perms(ActH * ActW) :
            LET xp == PermuteSpatial(loss_X[loss_layer], p)
            IN  /\ gram_matrix(xp) = gram_matrix(loss_X[loss_layer])
                /\ style_loss(loss_S, [l \in {loss_layer} |-> xp], loss_layer) = loss_out

\* style_loss has returned a positive loss for an activation map without rounding
\* that a permutation changes
C8_Witness ==
    /\ loss_pc = "return"
    /\ NoRounding(loss_X[loss_layer])
    /\ loss_out.num > 0
    /\ \E p \in Perms(ActH * ActW) :
          PermuteSpatial(loss_X[loss_layer], p) # loss_X[loss_layer]

(***************************************************************************)
(* The cells of the style-transfer notebook                                *)
(***************************************************************************)
MaxSelect == 2          \* the selection cells are run until photo_i, style_i = MaxSelect
MaxRuns == 2            \* the optimization cell is run up to MaxRuns times
MaxFun == 2             \* maxfun, 50 in the notebook

\* the prepared images of the two directories (prep_image's second result), of the
\* shape of the activations
Photos ==
    << << << << 1, 0 >>, << 1, 0 >>, << 2, 1 >> >> >>,
       << << << 0, 1 >>, << 2, 2 >>, << 1, 1 >> >> >> >>
Styles ==
    << << << << 2, 1 >>, << 0, 1 >>, << 1, 2 >> >> >>,
       << << << 1, 0 >>, << 1, 0 >>, << 2, 1 >> >> >> >>

\* end_points[layer] for an input image: the pre-trained network is a library; it is
\* a fixed function of the image, here a rearrangement of the image that differs
\* from layer to layer
EndPoint(layer, image) ==
    [h \in 1..ActH |-> [w \in 1..ActW |-> [c \in 1..ActC |->
        CASE layer = "Conv2d_2c_3x3" -> image[h][w][ActC + 1 - c]
          [] layer = "Mixed_3b"      -> image[h][ActW + 1 - w][c]
          [] layer = "Mixed_4d"      -> image[h][ActW + 1 - w][ActC + 1 - c]
          [] OTHER                   -> image[h][w][c]]]]

\* sess.run([end_points[k] for k in layers], feed_dict={input_image_float: image}),
\* keyed by layer name
SessRun(layers, image) == [l \in Range(layers) |-> EndPoint(l, image)]

\* arrays fetched by an earlier sess.run that share the buffers of the later run
KeptArraysOverwritten(arrays, later) ==
    [l \in DOMAIN arrays |-> IF l \in DOMAIN later THEN later[l] ELSE arrays[l]]

\* the arrays fetched by an earlier sess.run after a later run of the session has
\* fetched `later`: sess.run returns arrays of their own
KeptArrays(arrays, later) == arrays

\* art_image.flatten(): the entries in row-major order
flatten(image) ==
    [k \in 1..(ActH * ActW * ActC) |->
        image[((k - 1) \div (ActW * ActC)) + 1]
             [(((k - 1) \div ActC) % ActW) + 1]
             [((k - 1) % ActC) + 1]]

\* x.reshape(image_size, image_size, 3)
reshape_image(x) ==
    [h \in 1..ActH |-> [w \in 1..ActW |-> [c \in 1..ActC |->
        x[((h - 1) * ActW + (w - 1)) * ActC + c]]]]

\* the sum of the squares of x - p over the entries of a layer, in row-major order
RECURSIVE SumSquaresFlat(_, _, _)
SumSquaresFlat(x, p, k) ==
    IF k = 0 THEN 0
    ELSE LET d == FSub(x[k], p[k])
         IN  FAdd(SumSquaresFlat(x, p, k - 1), FMul(d, d))

\* content_loss(P, X, layer): 1/2 * reduce_mean(square(x - p)), kept as a fraction
content_loss(P, X, layer) ==
    [num |-> SumSquaresFlat(flatten(X[layer]), flatten(P[layer]), ActH * ActW * ActC),
     den |-> 2 * (ActH * ActW * ActC)]

\* the loss cell: the weighted components of `losses` for the candidate activations X
\* (the total-variation component, a power 1.25, is no rational and is left out)
Losses(consts, X) ==
    << [weight |-> 10, loss |-> content_loss(consts.P, X, "Mixed_4b")],
       [weight |-> 2000000, loss |-> style_loss(consts.S, X, "Conv2d_1a_7x7")],
       [weight |-> 2000000, loss |-> style_loss(consts.S, X, "Conv2d_2c_3x3")],
       [weight |-> 20000000, loss |-> style_loss(consts.S, X, "Mixed_3b")],
       [weight |-> 20000000, loss |-> style_loss(consts.S, X, "Mixed_4d")] >>

\* a cell that starts every run of the solver from the photo
SolverStartPhoto(x, image) == flatten(image)

\* the starting point passed to fmin_l_bfgs_b(eval_loss_and_grad, x0, maxfun=50) in a
\* notebook whose globals x0 and photo are x and image
SolverStart(x, image) == x

\* the pixels the solver's line search moves
SolverPixels == {1, 2}

\* the points the solver may evaluate after x: one of those pixels moved by one
Neighbours(x) ==
    {[x EXCEPT ![kv[1]] = kv[2]] :
        kv \in {kw \in SolverPixels \X ActVals : Abs(kw[2] - x[kw[1]]) = 1}}

\* an index that is off by one image
SelectIndexNext(i, n) == (i + 1) % n

\* photo_i % len(photos), style_i % len(styles)
SelectIndex(i, n) == i % n

SInit ==
    /\ photo_i = -1
    /\ style_i = -1
    /\ photo = << >>
    /\ style = << >>
    /\ photo_features = << >>
    /\ style_features = << >>
    /\ graph_consts = << >>
    /\ x0 = << >>
    /\ iteration = 0
    /\ x_eval = << >>
    /\ nfun = 0
    /\ losses_ = << >>
    /\ cell = "select"
    /\ SHistIdle

\* photo_i += 1; photo = plt.imread(photos[photo_i % len(photos)]); prep_image
SelectPhoto ==
    /\ cell = "select"
    /\ photo_i < MaxSelect
    /\ photo_i' = photo_i + 1
    /\ photo' = Photos[SelectIndex(photo_i', Len(Photos)) + 1]
    /\ UNCHANGED << style_i, style, photo_features, style_features, graph_consts, x0,
                    iteration, x_eval, nfun, losses_, cell >>
    /\ photo_hist' = Append(photo_hist, photo')
    /\ UNCHANGED << style_hist, run_starts, run_results >>
    /\ UNCHANGED << rvars, lvars, rhist, pvars >>

\* style_i += 1; style = plt.imread(styles[style_i % len(styles)]); prep_image
SelectStyle ==
    /\ cell = "select"
    /\ style_i < MaxSelect
    /\ style_i' = style_i + 1
    /\ style' = Styles[SelectIndex(style_i', Len(Styles)) + 1]
    /\ UNCHANGED << photo_i, photo, photo_features, style_features, graph_consts, x0,
                    iteration, x_eval, nfun, losses_, cell >>
    /\ style_hist' = Append(style_hist, style')
    /\ UNCHANGED << photo_hist, run_starts, run_results >>
    /\ UNCHANGED << rvars, lvars, rhist, pvars >>

\* the capture cell: style_features={}; photo_features={}; two runs of the session
Capture ==
    /\ cell = "select"
    /\ photo_i >= 0
    /\ style_i >= 0
    /\ LET photo_layers_np == SessRun(all_layers, photo)
           style_layers_np == SessRun(all_layers, style)
       IN  /\ photo_features' = KeptArrays(photo_layers_np, style_layers_np)
           /\ style_features' = style_layers_np
    /\ cell' = "captured"
    /\ UNCHANGED << photo_i, style_i, photo, style, graph_consts, x0, iteration,
                    x_eval, nfun, losses_ >>
    /\ UNCHANGED shist
    /\ UNCHANGED << rvars, lvars, rhist, pvars >>

\* the loss cell: tf.constant(P[layer]), tf.constant(S[layer]) copy the captured arrays
BuildLosses ==
    /\ cell = "captured"
    /\ graph_consts' = [P |-> [l \in Range(photo_layers) |-> photo_features[l]],
                        S |-> [l \in Range(style_layers) |-> style_features[l]]]
    /\ cell' = "built"
    /\ UNCHANGED << photo_i, style_i, photo, style, photo_features, style_features,
                    x0, iteration, x_eval, nfun, losses_ >>
    /\ UNCHANGED shist
    /\ UNCHANGED << rvars, lvars, rhist, pvars >>

\* art_image = photo; x0 = art_image.flatten().astype('float64'); iteration=0
InitX0 ==
    /\ cell = "built"
    /\ x0' = flatten(photo)
    /\ iteration' = 0
    /\ cell' = "ready"
    /\ UNCHANGED << photo_i, style_i, photo, style, photo_features, style_features,
                    graph_consts, x_eval, nfun, losses_ >>
    /\ run_starts' = << >>
    /\ run_results' = << >>
    /\ UNCHANGED << photo_hist, style_hist >>
    /\ UNCHANGED << rvars, lvars, rhist, pvars >>

\* the optimization cell is run: scipy.optimize.fmin_l_bfgs_b(eval_loss_and_grad, x0)
OptimizeBegin ==
    /\ cell = "ready"
    /\ iteration < MaxRuns
    /\ nfun' = 0
    /\ cell' = "solving"
    /\ UNCHANGED << photo_i, style_i, photo, style, photo_features, style_features,
                    graph_consts, x0, iteration, x_eval, losses_ >>
    /\ UNCHANGED shist
    /\ UNCHANGED << rvars, lvars, rhist, pvars >>

\* one call of eval_loss_and_grad(x) by the solver, the first one at x0
EvalLossAndGrad ==
    /\ cell = "solving"
    /\ nfun < MaxFun
    /\ \E x \in (IF nfun = 0 THEN {SolverStart(x0, photo)} ELSE Neighbours(x_eval)) :
          LET x_image == reshape_image(x)
              art_features == SessRun(all_layers, x_image)
          IN  /\ x_eval' = x
              /\ run_starts' = IF nfun = 0 THEN Append(run_starts, x) ELSE run_starts
              /\ losses_' = Losses(graph_consts, art_features)
              /\ photo_features' = KeptArrays(photo_features, art_features)
              /\ style_features' = KeptArrays(style_features, art_features)
    /\ nfun' = nfun + 1
    /\ UNCHANGED << photo_i, style_i, photo, style, graph_consts, x0, iteration, cell >>
    /\ UNCHANGED << photo_hist, style_hist, run_results >>
    /\ UNCHANGED << rvars, lvars, rhist, pvars >>

\* the solver returns: x0, x0_loss, state = ...; iteration += 1
OptimizeEnd ==
    /\ cell = "solving"
    /\ nfun >= 1
    /\ x0' = x_eval
    /\ iteration' = iteration + 1
    /\ cell' = "ready"
    /\ UNCHANGED << photo_i, style_i, photo, style, photo_features, style_features,
                    graph_consts, x_eval, nfun, losses_ >>
    /\ run_results' = Append(run_results, x0')
    /\ UNCHANGED << photo_hist, style_hist, run_starts >>
    /\ UNCHANGED << rvars, lvars, rhist, pvars >>

InitStyle == SInit /\ RIdle /\ LIdle /\ RHistIdle /\ PIdle

NextStyle ==
    \/ SelectPhoto
    \/ SelectStyle
    \/ Capture
    \/ BuildLosses
    \/ InitX0
    \/ OptimizeBegin
    \/ EvalLossAndGrad
    \/ OptimizeEnd

SpecStyle == InitStyle /\ [][NextStyle]_vars

(***************************************************************************)
(* Properties of the cells of the style-transfer notebook                  *)
(***************************************************************************)
\* C9: once the capture cell has run, no step changes photo_features or
\* style_features (neither an objective evaluation nor a run of the optimization
\* cell), and every objective evaluation computes its losses from the cached tensors.
C9_CacheFrozen ==
    cell # "select" => UNCHANGED << photo_features, style_features >>

C9_EvaluationReadsCache ==
    (cell = "solving" /\ nfun >= 1) =>
        /\ photo_features = SessRun(all_layers, photo)
        /\ style_features = SessRun(all_layers, style)
        /\ losses_ = Losses([P |-> photo_features, S |-> style_features],
                            SessRun(all_layers, reshape_image(x_eval)))

C9_FeatureCacheImmutable ==
    [][C9_CacheFrozen]_vars /\ []C9_EvaluationReadsCache

\* the optimization cell has been run twice, its evaluations have moved the pixels,
\* and the cache still holds the captured activations
C9_Witness ==
    /\ cell = "ready"
    /\ iteration >= 2
    /\ x0 # flatten(photo)
    /\ photo_features = SessRun(all_layers, photo)
    /\ style_features = SessRun(all_layers, style)
    /\ photo_features # style_features

\* the executions of a selection cell so far selected the images of the directory in
\* turn: the k-th one selected image (k-1) mod n of the n images, and any n
\* consecutive executions selected every image
Cycles(hist, images) ==
    /\ \A k \in DOMAIN hist : hist[k] = images[((k - 1) % Len(images)) + 1]
    /\ \A k \in 1..(Len(hist) - Len(images) + 1) :
          {hist[j] : j \in k..(k + Len(images) - 1)} = Range(images)

\* C11: starting from photo_i = -1 (style_i = -1), the k-th execution of the photo
\* (style) selection cell selects image (k-1) mod n of the n images of the directory:
\* the first one selects index 0, any n consecutive executions select every image
\* once, and the selection wraps around.
C11_SelectionCycles ==
    /\ Len(photo_hist) = photo_i + 1
    /\ Len(style_hist) = style_i + 1
    /\ Cycles(photo_hist, Photos)
    /\ Cycles(style_hist, Styles)
    /\ photo_i >= 0 => photo = photo_hist[Len(photo_hist)]
    /\ style_i >= 0 => style = style_hist[Len(style_hist)]

\* both cells have been executed more often than their directories hold images, and
\* the latest executions selected the first images again
C11_Witness ==
    /\ Len(photo_hist) = Len(Photos) + 1
    /\ Len(style_hist) = Len(Styles) + 1
    /\ photo = Photos[1]
    /\ style = Styles[1]

\* C12: the first run of the optimization cell starts the solver from the flattened
\* photo, every later run starts it from the x0 the preceding run returned, after k
\* completed runs iteration = k, and the runs leave the photo as it was selected.
C12_RunsRefine ==
    cell \in {"ready", "solving"} =>
        /\ Len(run_results) = iteration
        /\ Len(run_starts) \in {iteration, iteration + 1}
        /\ \A k \in DOMAIN run_starts :
              run_starts[k] = IF k = 1 THEN flatten(photo) ELSE run_results[k - 1]
        /\ (cell = "ready" /\ iteration > 0) => x0 = run_results[iteration]
        /\ photo = photo_hist[Len(photo_hist)]

\* two runs have completed, the first one returned pixels other than the photo's, and
\* the second one started from them and moved on
C12_Witness ==
    /\ cell = "ready"
    /\ iteration = 2
    /\ run_results[1] # flatten(photo)
    /\ run_starts[2] = run_results[1]
    /\ run_results[2] # run_results[1]

(***************************************************************************)
(* Further properties of the Reptile notebook                              *)
(***************************************************************************)
\* C13: the evaluation block leaves meta-training as it was: when an outer iteration
\* is over, with or without the block, the parameters are those its meta-update
\* produced and rng has given the numbers of the tasks and permutations only; the
\* snapshot of the next iteration holds the same parameters; within the block the
\* snapshot it restores holds them.
C13_EvaluationHasNoEffect ==
    /\ (pc = "loop" /\ outer_step >= 0) =>
          /\ W = w_meta
          /\ rng_draws = (GenTaskDraws + 1) * (outer_step + 1)
    /\ (pc = "task" /\ outer_step >= 1) =>
          /\ W = w_meta
          /\ Values(heap, weights_before) = w_meta
    /\ pc = "eval" =>
          /\ Values(heap, weights_before) = w_meta
          /\ rng_draws = (GenTaskDraws + 1) * (outer_step + 1)

\* an outer iteration is over whose evaluation block trained the model, after a
\* meta-update that had moved the parameters
C13_Witness ==
    /\ pc = "loop"
    /\ outer_step \in evals
    /\ Len(calls) > 0
    /\ calls[Len(calls)].x = "xtrain_plot"
    /\ w_meta # w_init
    /\ W = w_meta

\* the calls of train_current_model_on_batch one inner adaptation makes
BatchesPerEpoch == (LenX + BatchSize - 1) \div BatchSize
InnerCalls == inner_epochs * BatchesPerEpoch

\* the data indices of the calls a .. b, in the order of the calls
RECURSIVE ConcatX(_, _, _)
ConcatX(cs, a, b) == IF a > b THEN << >> ELSE cs[a].x \o ConcatX(cs, a + 1, b)

\* C14 as stated: an outer iteration makes exactly inner_epochs *
\* ceil(len(x_all)/inner_batchsize) calls of train_current_model_on_batch, each on the
\* data of the task sampled in the iteration.
C14_Original ==
    (pc = "loop" /\ outer_step >= 0) =>
        /\ Len(calls) = InnerCalls
        /\ \A k \in DOMAIN calls : calls[k].x # "xtrain_plot"

\* C14 amended: gen_task is called once per outer iteration; the inner adaptation of
\* an outer iteration makes exactly inner_epochs * ceil(len(x_all)/inner_batchsize)
\* calls of train_current_model_on_batch, each on the data of the task sampled in the
\* iteration; the batches of an epoch are the consecutive slices of size
\* inner_batchsize (the last one may be shorter) of the iteration's permutation, so
\* every data index is in exactly one batch of the epoch; an outer iteration whose
\* evaluation block executes makes the block's further calls, on the minibatch
\* xtrain_plot of the fixed task f_plot.
C14_Amended ==
    /\ (pc \in {"sgd", "plotcheck", "eval"} \/ (pc = "loop" /\ outer_step >= 0)) =>
          gen_calls = outer_step + 1
    /\ pc = "plotcheck" =>
          /\ Len(calls) = InnerCalls
          /\ \A k \in DOMAIN calls :
                /\ calls[k].task = f
                /\ Len(calls[k].x) <= BatchSize
                /\ k % BatchesPerEpoch # 0 => Len(calls[k].x) = BatchSize
          /\ \A e \in 0..(inner_epochs - 1) :
                /\ ConcatX(calls, e * BatchesPerEpoch + 1, (e + 1) * BatchesPerEpoch) = inds
                /\ \A i \in 1..LenX :
                      Cardinality({k \in (e * BatchesPerEpoch + 1)..((e + 1) * BatchesPerEpoch) :
                                     i \in Range(calls[k].x)}) = 1
    /\ (pc = "loop" /\ outer_step >= 0) =>
          /\ Len(calls) = InnerCalls + (IF outer_step \in evals THEN EvalSteps ELSE 0)
          /\ \A k \in DOMAIN calls :
                k > InnerCalls => calls[k] = [task |-> f_plot, x |-> "xtrain_plot"]

\* an outer iteration is over that trained on the batches of a task other than f_plot
\* and then ran the evaluation block
C14_Witness ==
    /\ pc = "loop"
    /\ outer_step \in evals
    /\ inner_epochs >= 1
    /\ Len(calls) = InnerCalls + EvalSteps
    /\ calls[1].task # f_plot
    /\ calls[1].x # calls[BatchesPerEpoch].x
    /\ calls[Len(calls)].x = "xtrain_plot"

\* C16 as stated: the evaluation block executes in an outer iteration only if plot is
\* true, and with plot true it executes exactly at outer_step = 0 and at the
\* outer_step with (outer_step + 1) divisible by the period.
C16_Original ==
    /\ pc = "eval" => plot
    /\ (pc = "loop" /\ outer_step >= 0) =>
          evals = IF plot
                  THEN {i \in 0..outer_step : i = 0 \/ (i + 1) % PlotEvery = 0}
                  ELSE {}

(***************************************************************************)
(* prep_image of the style-transfer notebook, on the shapes of its images  *)
(***************************************************************************)
MaxDim == 6             \* the height and the width of an image are drawn from 1..MaxDim

ResizeTo == 224         \* the side the smaller dimension is resized to
CropHalf == 112         \* half the side of the central crop

\* the shapes plt.imread returns: (h, w) for a grayscale image, (h, w, 3) for an RGB
\* image, (h, w, 4) for an RGBA image
ImreadShapes ==
    {<< h, w >> : h \in 1..MaxDim, w \in 1..MaxDim}
        \cup {<< h, w, c >> : h \in 1..MaxDim, w \in 1..MaxDim, c \in {3, 4}}

\* im[:, :, np.newaxis]; np.repeat(im, 3, axis=2)
RepeatChannels(shape) == << shape[1], shape[2], 3 >>

\* scipy.misc.imresize(im, size): the image in the mode of its channels, resized to
\* size[0] rows and size[1] columns; the library takes a dimension of size 3 as the
\* channels (mode RGB), and one of size 4 (mode RGBA) when there is none of size 3
imresize(shape, size) ==
    << size[1], size[2], IF \E k \in DOMAIN shape : shape[k] = 3 THEN 3 ELSE 4 >>

\* int(a * 224 / b) for positive a, b: the quotient is no integer's neighbour closer
\* than 1/b, so the float division truncates to the floor
ScaledDim(a, b) == (a * ResizeTo) \div b

\* a resize that scales the other dimension
ResizeSwapped(shape) ==
    IF shape[1] < shape[2]
    THEN imresize(shape, << ScaledDim(shape[1], shape[2]), ResizeTo >>)
    ELSE imresize(shape, << ResizeTo, ScaledDim(shape[2], shape[1]) >>)

\* h, w, _ = im.shape; if h < w: imresize(im, (224, int(w*224/h)))
\* else: imresize(im, (int(h*224/w), 224))
Resize(shape) ==
    IF shape[1] < shape[2]
    THEN imresize(shape, << ResizeTo, ScaledDim(shape[2], shape[1]) >>)
    ELSE imresize(shape, << ScaledDim(shape[1], shape[2]), ResizeTo >>)

\* the number of elements of q[a:b] for a sequence of n elements (a negative index
\* counts from the end; indices are clipped to 0..n)
SliceLen(n, a, b) ==
    LET clip(i) == IF i < 0 THEN (IF i + n < 0 THEN 0 ELSE i + n)
                   ELSE IF i > n THEN n ELSE i
    IN  IF clip(b) > clip(a) THEN clip(b) - clip(a) ELSE 0

\* h, w, _ = im.shape; im[h//2-112:h//2+112, w//2-112:w//2+112]
CentralCrop(shape) ==
    << SliceLen(shape[1], (shape[1] \div 2) - CropHalf, (shape[1] \div 2) + CropHalf),
       SliceLen(shape[2], (shape[2] \div 2) - CropHalf, (shape[2] \div 2) + CropHalf),
       shape[3] >>

\* the shape of both arrays prep_image(im) returns (rawim and im)
prep_image(shape) ==
    LET im3 == IF Len(shape) = 2 THEN RepeatChannels(shape) ELSE shape
    IN  CentralCrop(Resize(im3))

PInit ==
    /\ im_shape \in ImreadShapes
    /\ prep_out = << >>
    /\ prep_pc = "call"

\* photo_rawim, photo = prep_image(photo)
CallPrepImage ==
    /\ prep_pc = "call"
    /\ prep_out' = prep_image(im_shape)
    /\ prep_pc' = "return"
    /\ UNCHANGED im_shape
    /\ UNCHANGED << rvars, lvars, svars, rhist, shist >>

InitPrep == PInit /\ RIdle /\ LIdle /\ SIdle /\ RHistIdle /\ SHistIdle

NextPrep == CallPrepImage

SpecPrep == InitPrep /\ [][NextPrep]_vars

\* the resize of an image of h rows and w columns makes the smaller dimension 224 and
\* the larger one int(larger*224/smaller) >= 224, and the crop indices are not
\* negative and within the resized image
ResizeAndCropInRange(h, w) ==
    LET r == Resize(<< h, w, 3 >>)
        small == IF h < w THEN r[1] ELSE r[2]
        large == IF h < w THEN r[2] ELSE r[1]
    IN  /\ small = 224
        /\ large = (IF h < w THEN (w * 224) \div h ELSE (h * 224) \div w)
        /\ large >= 224
        /\ \A n \in {r[1], r[2]} : (n \div 2) - 112 >= 0 /\ (n \div 2) + 112 <= n

\* C15 as stated: prep_image returns images of exactly 224 x 224 x 3 for every input
\* of height and width >= 1, grayscale or colour; the resize makes the smaller
\* dimension 224 and the larger one int(larger*224/smaller) >= 224, and the crop
\* indices are within the resized image.
C15_Original ==
    prep_pc = "return" =>
        /\ prep_out = << 224, 224, 3 >>
        /\ ResizeAndCropInRange(im_shape[1], im_shape[2])

\* what the code does: the spatial size is 224 x 224 for every input, the channels are
\* 3 for a grayscale or an RGB input and 4 for an RGBA input with no side of 3 pixels
C15_SpatialSizeOnly ==
    prep_pc = "return" =>
        /\ prep_out[1] = 224
        /\ prep_out[2] = 224
        /\ Len(im_shape) = 2 => prep_out[3] = 3
        /\ (Len(im_shape) = 3 /\ im_shape[1] # 3 /\ im_shape[2] # 3) =>
              prep_out[3] = im_shape[3]
        /\ ResizeAndCropInRange(im_shape[1], im_shape[2])

====
